---------------------------- MODULE Spec2Model ----------------------------
(***************************************************************************)
(* Model of packages/forms/src/index.tsx: the coercion dispatch            *)
(* (setCoercion), field registration (useRegister and the field            *)
(* components), the merged blur/change handlers, and the server-error      *)
(* context of Form / useErrorStyles.                                       *)
(*                                                                         *)
(* JavaScript values are modelled as strings:                              *)
(*   "absent"      the key is not in the object                            *)
(*   "undefined"   the value undefined (a missing argument, a failed       *)
(*                 table lookup, a key assigned undefined)                 *)
(*   "false", "true", ""  the falsy/truthy primitives the code tests       *)
(*   any other string     a truthy value (a type name, a function)         *)
(***************************************************************************)
EXTENDS Naturals, Sequences, FiniteSets

VARIABLES
    \* one call of setCoercion
    validation,     \* the validation object the call works on
    given,          \* the same object as the caller wrote it
    fieldType,      \* the { type } argument
    pc,             \* "call" | "returned" | "threw"
    \* registration of fields (useRegister)
    objects,        \* heap of the callers' validation objects, by identity
    supplied,       \* the same objects as the callers wrote them
    users,          \* per validation object: the fields registered with it
    last,           \* the latest render: its props, and the type and
                    \* options it passed to register
    \* merged event handlers
    attached,       \* per field name: which handler props the field has
    dispatched,     \* the latest blur or change event
    calls,          \* handlers invoked by the latest event, in order
    \* server errors
    errorProp,      \* the Form's error prop
    formPc,         \* "init" | "rendered" | "threw"
    serverErrors,   \* value of ServerErrorsContext
    effect,         \* the latest run of useErrorStyles' effect
    fieldErrors     \* per field name: error set through setError

vars == <<validation, given, fieldType, pc, objects, supplied, users,
          last, attached, dispatched, calls, errorProp, formPc,
          serverErrors, effect, fieldErrors>>

coercionVars == <<validation, given, fieldType, pc>>
registerVars == <<objects, supplied, users, last>>
eventVars == <<attached, dispatched, calls>>
formVars == <<errorProp, formPc, serverErrors, effect, fieldErrors>>

-----------------------------------------------------------------------------
(* JavaScript helpers *)

\* ToBoolean of a modelled value.
Truthy(v) == v \notin {"absent", "undefined", "false", ""}

\* table[key] on a plain object: undefined when the key is missing.
Lookup(table, key) == IF key \in DOMAIN table THEN table[key] ELSE "undefined"

\* key in object
HasKey(object, key) == key \in DOMAIN object /\ object[key] # "absent"

-----------------------------------------------------------------------------
(* ./coercion (imported by index.tsx, line 15) *)

\* Directive flag -> directive name, in key order.
valueAsKeys == <<"valueAsBoolean", "valueAsFloat", "valueAsJSON", "valueAsDateTime">>

valueAsProps ==
    [valueAsBoolean |-> "Boolean", valueAsFloat |-> "Float",
     valueAsJSON |-> "JSON", valueAsDateTime |-> "DateTime"]

\* Directive name -> transform function (functions are named, not applied).
COERCION_FUNCTIONS ==
    [Boolean |-> "fnBoolean", Float |-> "fnFloat",
     JSON |-> "fnJSON", DateTime |-> "fnDateTime"]

\* Input type -> default directive.
inputTypeToDataTypeMapping ==
    [t \in {"checkbox", "number", "date", "datetime-local"} |->
        CASE t = "checkbox" -> "Boolean"
          [] t = "number" -> "Float"
          [] OTHER -> "DateTime"]

-----------------------------------------------------------------------------
(* Validation objects *)

Tri == {"absent", "false", "true"}

\* A flag naming a directive that is not in the directive table.
UnknownFlag == "valueAsInt"

\* Every validation object a caller can write (within the modelled keys).
Configs ==
    [required : Tri, valueAsNumber : Tri, valueAsDate : Tri,
     setValueAs : {"absent", "fnCustom"},
     valueAsBoolean : Tri, valueAsFloat : Tri, valueAsJSON : Tri,
     valueAsDateTime : Tri, valueAsInt : Tri]

\* An object literal with only the listed key set.
EmptyConfig ==
    [required |-> "absent", valueAsNumber |-> "absent", valueAsDate |-> "absent",
     setValueAs |-> "absent", valueAsBoolean |-> "absent",
     valueAsFloat |-> "absent", valueAsJSON |-> "absent",
     valueAsDateTime |-> "absent", valueAsInt |-> "absent"]

\* props.validation || { required: false }
DefaultValidation == [EmptyConfig EXCEPT !.required = "false"]

FieldTypes == {"undefined", "", "number", "date", "datetime-local", "checkbox", "text"}

-----------------------------------------------------------------------------
(* setCoercion *)

\* Variant: the guard forgets a caller-supplied setValueAs.
AlreadyCoerced_IgnoresSetValueAs(v) ==
    Truthy(v.valueAsNumber) \/ Truthy(v.valueAsDate)

\* validation.valueAsNumber || validation.valueAsDate || validation.setValueAs
AlreadyCoerced(v) ==
    Truthy(v.valueAsNumber) \/ Truthy(v.valueAsDate) \/ Truthy(v.setValueAs)

\* Variant: a flag counts only when its value is truthy (validation[k]
\* instead of k in validation).
FindValueAsProp_ByValue(v) ==
    LET hits == {i \in DOMAIN valueAsKeys : Truthy(v[valueAsKeys[i]])}
    IN  IF hits = {} THEN "undefined"
        ELSE valueAsKeys[CHOOSE i \in hits : \A j \in hits : i <= j]

\* Object.keys(valueAsProps).find((valueAsProp) => valueAsProp in validation)
FindValueAsProp(v) ==
    LET hits == {i \in DOMAIN valueAsKeys : HasKey(v, valueAsKeys[i])}
    IN  IF hits = {} THEN "undefined"
        ELSE valueAsKeys[CHOOSE i \in hits : \A j \in hits : i <= j]

\* Variant: no special case for "number"; it falls to the type table.
TypeIsNumber_Never(type) == FALSE

\* type && type === 'number'
TypeIsNumber(type) == Truthy(type) /\ type = "number"

\* Variant: the table is indexed for every type without testing the result.
TypeIsMapped_AnyType(type) == Truthy(type)

\* type && inputTypeToDataTypeMapping[type]
TypeIsMapped(type) == Truthy(type) /\ Truthy(Lookup(inputTypeToDataTypeMapping, type))

\* The validation object after setCoercion(validation, { type }).  The
\* function has no throw statement and no call that can throw.
setCoercion(v, type) ==
    IF AlreadyCoerced(v) THEN v
    ELSE LET valueAsProp == FindValueAsProp(v) IN
         IF Truthy(valueAsProp)
         THEN [v EXCEPT !.setValueAs =
                   Lookup(COERCION_FUNCTIONS, valueAsProps[valueAsProp])]
         ELSE IF TypeIsNumber(type)
         THEN [v EXCEPT !.valueAsNumber = "true"]
         ELSE IF TypeIsMapped(type)
         THEN [v EXCEPT !.setValueAs =
                   Lookup(COERCION_FUNCTIONS, Lookup(inputTypeToDataTypeMapping, type))]
         ELSE v

-----------------------------------------------------------------------------
(* Bounds and initial values *)

NumObjects == 2
MaxGraphQLErrors == 2
NumEvents == 2

\* The names of the fields of the form.
FieldNames == {"age", "email"}
ObjectIds == 1..NumObjects
NoObject == 0
NoField == ""

NoRender ==
    [name |-> NoField, component |-> "none", propsType |-> "absent",
     validation |-> NoObject, type |-> "undefined", inputType |-> "undefined",
     options |-> EmptyConfig]

NoHandlers == [mounted |-> FALSE, onBlur |-> FALSE, onChange |-> FALSE]

NoEvent == [kind |-> "none", field |-> NoField, event |-> 0]

NoErrorProp == [present |-> FALSE, hasGraphQLErrors |-> FALSE, graphQLErrors |-> <<>>]

NoMessages == [n \in FieldNames |-> "absent"]

NoFieldError == [type |-> "none", message |-> ""]

NoEffect == [name |-> NoField, serverError |-> "undefined", setError |-> FALSE]

CoercionIdle ==
    /\ validation = EmptyConfig
    /\ given = EmptyConfig
    /\ fieldType = "undefined"
    /\ pc = "idle"

RegisterIdle ==
    /\ objects = [o \in ObjectIds |-> EmptyConfig]
    /\ supplied = objects
    /\ users = [o \in ObjectIds |-> {}]
    /\ last = NoRender

\* setCoercion(validation, { type })
SetCoercionCall ==
    /\ pc = "call"
    /\ validation' = setCoercion(validation, fieldType)
    /\ pc' = "returned"
    /\ UNCHANGED <<given, fieldType>>
    /\ UNCHANGED <<registerVars, eventVars, formVars>>

-----------------------------------------------------------------------------
(* Field components and useRegister *)

\* The entries of INPUT_TYPES the model generates a component for.
INPUT_TYPES == {"date", "number", "text"}

\* `${pascalcase(type)}Field`
inputComponents ==
    [t \in INPUT_TYPES |->
        CASE t = "date" -> "DateField"
          [] t = "number" -> "NumberField"
          [] OTHER -> "TextField"]

GeneratedComponents == {inputComponents[t] : t \in INPUT_TYPES}

\* SelectField registers exactly as TextAreaField does.
Components ==
    GeneratedComponents \cup {"InputField", "CheckboxField", "TextAreaField"}

\* The type a generated component was created for.
FixedType(component) == CHOOSE t \in INPUT_TYPES : inputComponents[t] = component

\* The type attribute a caller may pass in props ("absent": no such prop).
PropsTypes == {"absent", "number", "text"}

\* <InputField ref={ref} type={type} {...props} />: the props InputField
\* receives; a type in props comes after, and replaces, the fixed type.
GeneratedProps(component, propsType) ==
    IF propsType # "absent" THEN propsType ELSE FixedType(component)

\* The type each component hands to useRegister.
RegisteredType(component, propsType) ==
    CASE component \in GeneratedComponents ->
             GeneratedProps(component, propsType)
      [] component = "InputField" ->
             IF propsType = "absent" THEN "undefined" ELSE propsType
      [] component = "CheckboxField" -> "checkbox"
      [] OTHER -> "undefined"

\* The type attribute of the element each component renders ("undefined":
\* a textarea or select, or an input without a type).
RenderedType(component, propsType) ==
    CASE component \in GeneratedComponents ->
             GeneratedProps(component, propsType)
      [] component = "InputField" ->
             IF propsType = "absent" THEN "undefined" ELSE propsType
      [] component = "CheckboxField" -> "checkbox"
      [] OTHER -> "undefined"

\* const validation = props.validation || { required: false }
ValidationOf(vref) == IF vref = NoObject THEN DefaultValidation ELSE objects[vref]

\* useErrorStyles: the server error of this name, and the effect that
\* injects it (the effect runs on mount and when the message changes).
useErrorStyles(name) ==
    LET serverError == IF serverErrors[name] = "absent" THEN "undefined"
                       ELSE serverErrors[name]
    IN  /\ effect' = [name |-> name, serverError |-> serverError,
                      setError |-> Truthy(serverError)]
        /\ fieldErrors' =
               IF Truthy(serverError)
               THEN [fieldErrors EXCEPT ![name] =
                        [type |-> "server", message |-> serverError]]
               ELSE fieldErrors

\* One render of a field component: useRegister resolves the coercion on the
\* validation object itself and passes that object to register; the merged
\* handlers close over the props of this render.
Render(name, component, propsType, vref, hasOnBlur, hasOnChange) ==
    LET type == RegisteredType(component, propsType)
        after == setCoercion(ValidationOf(vref), type)
    IN  /\ formPc = "rendered"
        /\ useErrorStyles(name)
        /\ objects' = IF vref = NoObject THEN objects
                      ELSE [objects EXCEPT ![vref] = after]
        /\ users' = IF vref = NoObject THEN users
                    ELSE [users EXCEPT ![vref] = @ \cup {name}]
        /\ last' = [name |-> name, component |-> component,
                    propsType |-> propsType, validation |-> vref,
                    type |-> type,
                    inputType |-> RenderedType(component, propsType),
                    options |-> after]
        /\ attached' = [attached EXCEPT ![name] =
                           [mounted |-> TRUE, onBlur |-> hasOnBlur,
                            onChange |-> hasOnChange]]
        /\ UNCHANGED <<supplied, dispatched, calls>>
        /\ UNCHANGED <<coercionVars, errorProp, formPc, serverErrors>>

-----------------------------------------------------------------------------
(* Merged event handlers *)

Events == 1..NumEvents

\* Variant: the field's own handler runs before the engine's.
onBlur_PropFirst(name, event) ==
    (IF attached[name].onBlur
     THEN <<[fn |-> "props.onBlur", field |-> name, event |-> event]>>
     ELSE <<>>)
    \o <<[fn |-> "handleBlur", field |-> name, event |-> event]>>

\* handleBlur(event); props?.onBlur?.(event)
onBlur(name, event) ==
    <<[fn |-> "handleBlur", field |-> name, event |-> event]>>
    \o (IF attached[name].onBlur
        THEN <<[fn |-> "props.onBlur", field |-> name, event |-> event]>>
        ELSE <<>>)

\* handleChange(event); props?.onChange?.(event)
onChange(name, event) ==
    <<[fn |-> "handleChange", field |-> name, event |-> event]>>
    \o (IF attached[name].onChange
        THEN <<[fn |-> "props.onChange", field |-> name, event |-> event]>>
        ELSE <<>>)

\* A blur event on the element of a rendered field.
Blur(name, event) ==
    /\ attached[name].mounted
    /\ dispatched' = [kind |-> "blur", field |-> name, event |-> event]
    /\ calls' = onBlur(name, event)
    /\ UNCHANGED <<attached, coercionVars, registerVars, formVars>>

\* A change event on the element of a rendered field.
Change(name, event) ==
    /\ attached[name].mounted
    /\ dispatched' = [kind |-> "change", field |-> name, event |-> event]
    /\ calls' = onChange(name, event)
    /\ UNCHANGED <<attached, coercionVars, registerVars, formVars>>

EventsIdle ==
    /\ attached = [n \in FieldNames |-> NoHandlers]
    /\ dispatched = NoEvent
    /\ calls = <<>>

-----------------------------------------------------------------------------
(* Form and the server-error context *)

Messages == {"absent", "", "is taken"}

\* One element of error.graphQLErrors: whether it has the path
\* extensions.exception.messages, and the map found there.
GraphQLErrors ==
    {[hasMessages |-> FALSE, messages |-> NoMessages]}
    \cup [hasMessages : {TRUE}, messages : [FieldNames -> Messages]]

\* The values of the error prop: no error, an error object without
\* graphQLErrors, or one with an array of up to MaxGraphQLErrors elements.
ErrorProps ==
    {NoErrorProp,
     [present |-> TRUE, hasGraphQLErrors |-> FALSE, graphQLErrors |-> <<>>]}
    \cup [present : {TRUE}, hasGraphQLErrors : {TRUE},
          graphQLErrors : UNION {[1..k -> GraphQLErrors] : k \in 0..MaxGraphQLErrors}]

\* errorProps?.graphQLErrors[0] raises a TypeError when errorProps is an
\* object whose graphQLErrors is undefined: ?. guards errorProps only.
FormThrows(error) == error.present /\ ~error.hasGraphQLErrors

\* errorProps?.graphQLErrors[0]?.extensions?.exception?.messages || {}
ContextValue(error) ==
    IF ~error.present THEN NoMessages
    ELSE IF Len(error.graphQLErrors) = 0 THEN NoMessages
    ELSE IF ~error.graphQLErrors[1].hasMessages THEN NoMessages
    ELSE error.graphQLErrors[1].messages

\* One render of Form with an error prop.
RenderForm(error) ==
    /\ errorProp' = error
    /\ IF FormThrows(error)
       THEN formPc' = "threw" /\ serverErrors' = NoMessages
       ELSE formPc' = "rendered" /\ serverErrors' = ContextValue(error)
    /\ effect' = NoEffect
    /\ UNCHANGED <<fieldErrors, coercionVars, registerVars, eventVars>>

\* One render of a Label.
RenderLabel(name) ==
    /\ formPc = "rendered"
    /\ useErrorStyles(name)
    /\ UNCHANGED <<errorProp, formPc, serverErrors>>
    /\ UNCHANGED <<coercionVars, registerVars, eventVars>>

\* A Form rendered without an error prop.
FormIdle ==
    /\ errorProp = NoErrorProp
    /\ formPc = "rendered"
    /\ serverErrors = NoMessages
    /\ effect = NoEffect
    /\ fieldErrors = [n \in FieldNames |-> NoFieldError]

-----------------------------------------------------------------------------
(* Specifications *)

\* setCoercion called once on every validation object and every type.
InitCoercion ==
    /\ validation \in Configs
    /\ given = validation
    /\ fieldType \in FieldTypes
    /\ pc = "call"
    /\ RegisterIdle /\ EventsIdle /\ FormIdle

NextCoercion == SetCoercionCall

SpecCoercion == InitCoercion /\ [][NextCoercion]_vars

\* The validation objects callers hand to the fields of a form.
CallerConfigs ==
    {EmptyConfig,
     [EmptyConfig EXCEPT !.setValueAs = "fnCustom"],
     [EmptyConfig EXCEPT !.valueAsJSON = "true"]}

\* Fields of one form rendered in any order, any number of times, each with
\* no validation prop or with one of the callers' objects.
InitRegister ==
    /\ objects \in [ObjectIds -> CallerConfigs]
    /\ supplied = objects
    /\ users = [o \in ObjectIds |-> {}]
    /\ last = NoRender
    /\ CoercionIdle /\ EventsIdle /\ FormIdle

NextRegister ==
    \E name \in FieldNames, component \in Components, propsType \in PropsTypes,
       vref \in ObjectIds \cup {NoObject} :
        Render(name, component, propsType, vref, FALSE, FALSE)

SpecRegister == InitRegister /\ [][NextRegister]_vars

\* Fields rendered with and without handler props, and their events.
InitEvents == CoercionIdle /\ RegisterIdle /\ EventsIdle /\ FormIdle

NextEvents ==
    \/ \E name \in FieldNames, component \in {"TextField", "CheckboxField"},
          hasOnBlur \in BOOLEAN, hasOnChange \in BOOLEAN :
           Render(name, component, "absent", NoObject, hasOnBlur, hasOnChange)
    \/ \E name \in FieldNames, event \in Events : Blur(name, event)
    \/ \E name \in FieldNames, event \in Events : Change(name, event)

SpecEvents == InitEvents /\ [][NextEvents]_vars

\* A Form rendered with any error prop, and its fields and labels.
InitForm == CoercionIdle /\ RegisterIdle /\ EventsIdle /\ FormIdle

NextForm ==
    \/ \E error \in ErrorProps : RenderForm(error)
    \/ \E name \in FieldNames : RenderLabel(name)
    \/ \E name \in FieldNames :
           Render(name, "TextField", "absent", NoObject, FALSE, FALSE)

SpecForm == InitForm /\ [][NextForm]_vars

Init == InitRegister

Next == NextRegister

Spec == SpecRegister

-----------------------------------------------------------------------------
(* Properties of setCoercion (SpecCoercion) *)

\* The caller already chose a coercion: a flag that is on, or a function.
CallerCoerced(v) ==
    v.valueAsNumber = "true" \/ v.valueAsDate = "true" \/ v.setValueAs = "fnCustom"

\* The explicit directive flags the object carries (key present, any value).
Carried(v) == {i \in DOMAIN valueAsKeys : v[valueAsKeys[i]] # "absent"}

\* The directive-table function of the first carried flag, in table order.
FirstCarriedFunction(v) ==
    LET i == CHOOSE i \in Carried(v) : \A j \in Carried(v) : i <= j
    IN  COERCION_FUNCTIONS[valueAsProps[valueAsKeys[i]]]

\* C1: when valueAsNumber or valueAsDate is on, or setValueAs is a function,
\* setCoercion returns with the whole validation object as the caller wrote
\* it, whatever the type and the directive flags.
C1_NonClobbering ==
    (pc = "returned" /\ CallerCoerced(given)) => validation = given

C1_Witness ==
    /\ pc = "returned"
    /\ given.setValueAs = "fnCustom"
    /\ given.valueAsNumber = "absent"
    /\ given.valueAsBoolean = "true"
    /\ fieldType = "number"
    /\ validation = given

\* C2: with no caller coercion and an explicit directive flag carried,
\* setCoercion sets setValueAs to the directive-table function of the carried
\* flag (the first in table order when several are carried) and changes
\* nothing else, for every type: valueAsNumber is not turned on for type
\* "number" and the type table is not consulted.
C2_DirectiveBeatsType ==
    (pc = "returned" /\ ~CallerCoerced(given) /\ Carried(given) # {}) =>
        validation = [given EXCEPT !.setValueAs = FirstCarriedFunction(given)]

C2_Witness ==
    /\ pc = "returned"
    /\ ~CallerCoerced(given)
    /\ given.valueAsJSON = "false"
    /\ Carried(given) = {3}
    /\ valueAsKeys[3] = "valueAsJSON"
    /\ fieldType = "number"
    /\ validation.setValueAs = "fnJSON"
    /\ validation.valueAsNumber = "absent"

\* C3: for type "number" with no caller coercion and no directive flag,
\* setCoercion turns valueAsNumber on and attaches no setValueAs, although
\* "number" is a key of the input-type table.
C3_NumberSetsValueAsNumber ==
    (pc = "returned" /\ fieldType = "number" /\ ~CallerCoerced(given)
        /\ Carried(given) = {}) =>
        /\ validation = [given EXCEPT !.valueAsNumber = "true"]
        /\ validation.setValueAs = "absent"

C3_Witness ==
    /\ pc = "returned"
    /\ fieldType = "number"
    /\ "number" \in DOMAIN inputTypeToDataTypeMapping
    /\ given = DefaultValidation
    /\ validation.valueAsNumber = "true"
    /\ validation.setValueAs = "absent"

\* C4: for a type other than "number" with no caller coercion and no
\* directive flag, setCoercion attaches the function of the mapped directive
\* exactly when the type is a key of the input-type table, and otherwise
\* leaves the validation object as it was.
C4_TypeTableDefault ==
    (pc = "returned" /\ fieldType # "number" /\ ~CallerCoerced(given)
        /\ Carried(given) = {}) =>
        IF fieldType \in DOMAIN inputTypeToDataTypeMapping
        THEN validation = [given EXCEPT !.setValueAs =
                 COERCION_FUNCTIONS[inputTypeToDataTypeMapping[fieldType]]]
        ELSE validation = given

C4_Witness ==
    /\ pc = "returned"
    /\ fieldType = "date"
    /\ given = DefaultValidation
    /\ validation.setValueAs = "fnDateTime"

\* C5: a validation object that names a directive outside the directive
\* table makes setCoercion fail: the call never returns normally.
C5_UnknownDirectiveFails ==
    (HasKey(given, UnknownFlag) /\ ~CallerCoerced(given) /\ Carried(given) = {})
        => pc # "returned"

-----------------------------------------------------------------------------
(* Properties of registration (SpecRegister) *)

\* The coercion part of a validation object.
CoercionOf(v) == <<v.valueAsNumber, v.valueAsDate, v.setValueAs>>

\* The validation a field's caller supplied.
SuppliedTo(vref) == IF vref = NoObject THEN DefaultValidation ELSE supplied[vref]

\* C6: the coercion a field is registered with the first time it is rendered
\* with a validation object is the one its own type and the caller's settings
\* give, whatever fields were registered with that object before.
C6_IndependentPerField ==
    [][\A n \in FieldNames, o \in ObjectIds :
          (last'.name = n /\ last'.validation = o /\ n \notin users[o]
              /\ n \in users'[o])
          => CoercionOf(last'.options)
                 = CoercionOf(setCoercion(SuppliedTo(o), last'.type))]_vars

\* C7: when a field whose caller set no coercion is rendered again with the
\* same validation object, used by no other field, and a different type, the
\* coercion registered is the one for the new type.
C7_DerivedNotStored ==
    [][\A n \in FieldNames, o \in ObjectIds :
          (last.name = n /\ last'.name = n
              /\ last.validation = o /\ last'.validation = o
              /\ users'[o] = {n}
              /\ last.type # last'.type
              /\ ~CallerCoerced(supplied[o]))
          => CoercionOf(last'.options)
                 = CoercionOf(setCoercion(SuppliedTo(o), last'.type))]_vars

\* C9: a generated per-type component registers its field with, and renders
\* an input of, the type it was generated for, whatever props it is given.
C9_FixedTypePerComponent ==
    last.component \in GeneratedComponents =>
        /\ last.type = FixedType(last.component)
        /\ last.inputType = FixedType(last.component)

-----------------------------------------------------------------------------
(* Properties of the merged handlers (SpecEvents) *)

CallsOf(fn) == {i \in DOMAIN calls' : calls'[i].fn = fn}

\* C10: on every blur or change event the engine's handler of that kind runs
\* exactly once and first; the field's own handler prop of that kind runs
\* exactly once after it when the field has one and not at all otherwise;
\* every call gets the event; no handler of the other kind runs.
C10_HandlerMergingOrder ==
    [][(dispatched' # dispatched \/ calls' # calls) =>
          LET d == dispatched'
              engine == IF d.kind = "blur" THEN "handleBlur" ELSE "handleChange"
              own == IF d.kind = "blur" THEN "props.onBlur" ELSE "props.onChange"
              provided == IF d.kind = "blur" THEN attached[d.field].onBlur
                          ELSE attached[d.field].onChange
          IN  /\ Cardinality(CallsOf(engine)) = 1
              /\ calls'[1].fn = engine
              /\ Cardinality(CallsOf(own)) = IF provided THEN 1 ELSE 0
              /\ \A i \in DOMAIN calls' :
                     /\ calls'[i].fn \in {engine, own}
                     /\ calls'[i].event = d.event
                     /\ calls'[i].field = d.field]_vars

C10_Witness ==
    /\ dispatched.kind = "blur"
    /\ attached[dispatched.field].onBlur
    /\ attached[dispatched.field].onChange
    /\ Len(calls) = 2
    /\ calls[1].fn = "handleBlur"
    /\ calls[2].fn = "props.onBlur"

-----------------------------------------------------------------------------
(* Properties of server-error injection (SpecForm) *)

\* The messages map of the first element of error.graphQLErrors, or the empty
\* map when there is no error or the path to it is missing.
FirstMessages(error) ==
    IF error.present /\ error.hasGraphQLErrors /\ Len(error.graphQLErrors) >= 1
          /\ error.graphQLErrors[1].hasMessages
    THEN error.graphQLErrors[1].messages
    ELSE NoMessages

\* C8: the Form renders with the server-error context equal to the first
\* element's messages map (empty when there is no error or the path is
\* missing), and a rendered field or Label sets a 'server' error with the
\* message exactly when its name has a non-empty message there.
C8_ServerErrorInjection ==
    /\ formPc = "rendered"
    /\ serverErrors = FirstMessages(errorProp)
    /\ effect.name # NoField =>
           LET m == serverErrors[effect.name] IN
           IF m \notin {"absent", ""}
           THEN effect.setError
                /\ fieldErrors[effect.name] = [type |-> "server", message |-> m]
           ELSE ~effect.setError

=============================================================================
